---- MODULE Spec2Model ----
(***************************************************************************)
(* Model of the outfit timeline and the garment application engine of the  *)
(* App component (App.tsx).                                                *)
(*                                                                         *)
(* React state is modelled at the granularity of committed renders. The    *)
(* panels call the handlers of the current render, so a handler reads the  *)
(* current state when it is invoked; an async handler keeps, after each    *)
(* await, the values its closure captured at that moment, while functional *)
(* updaters (setX(prev => ...)) read the state current when they run.      *)
(* WardrobePanel prepares the garment file before it calls the handler;    *)
(* that preparation is taken as instantaneous, so the handler it calls is  *)
(* the one of the render in which the user pressed the button.             *)
(***************************************************************************)
EXTENDS Integers, Sequences, FiniteSets, TLC

(***************************************************************************)
(* Bounds of the model                                                     *)
(***************************************************************************)
\* layers the history may hold (new applications beyond it are not started)
MaxLayers == 3
\* external calls that may be outstanding together
MaxPending == 2
\* poses of POSE_INSTRUCTIONS that are explored (indices 0..NumPoses-1)
NumPoses == 2
\* the preset garments of the default wardrobe, ids 1 .. NumGarments
NumGarments == 2

\* the same in the specification of the four engine operations
MaxEngineLayers == 2
MaxEnginePending == 1
\* the same in the specification of the wardrobe
MaxWardrobeLayers == 2
MaxWardrobePending == 1
\* garments the user uploaded, with ids above those of the presets
NumUploads == 1
MaxRegistrationLayers == 2
MaxRegistrationPending == 2

PoseIndices == 0 .. (NumPoses - 1)
GarmentIds == 1 .. NumGarments
EngineGarmentIds == {1}
WardrobeGarmentIds == 1 .. (NumGarments + NumUploads)

\* App.tsx line 20: the pose instruction of an index (the key of poseImages);
\* the instruction strings are distinct, so the index stands for the string
POSE_INSTRUCTIONS(i) == i

\* Canvas SCENE_OPTIONS: the values handed to onSceneSelect
SCENE_OPTIONS == {"Studio", "Tropical Beach"}

\* wardrobe.ts: the ids of the preset wardrobe
defaultWardrobe == [i \in 1 .. NumGarments |-> i]

(***************************************************************************)
(* Values                                                                  *)
(***************************************************************************)
\* null of an image reference (string | null)
NoImage == [pose |-> -1, scene |-> "null", garment |-> 0]
\* null of the error slot
NoError == "null"
\* garment: null of a layer
NoGarment == 0
\* garments: undefined of a layer (a multi layer always has a non-empty list)
NoGarments == << >>

\* An image reference (a data URL), told apart by what the picture shows: the
\* pose and the scene of the model and the garment that was put on last.
Image(p, s, g) == [pose |-> p, scene |-> s, garment |-> g]

\* geminiService generateModelImage: the model in the default pose and scene
generateModelImage == Image(0, "Studio", 0)

\* geminiService generateVirtualTryOnImage(modelImageUrl, garmentImage)
generateVirtualTryOnImage(modelImageUrl, garment) ==
  [modelImageUrl EXCEPT !.garment = garment]

\* geminiService generateMultiGarmentTryOn(modelImageUrl, garmentFiles)
generateMultiGarmentTryOn(modelImageUrl, garments) ==
  [modelImageUrl EXCEPT !.garment = garments[Len(garments)]]

\* geminiService generatePoseVariation(tryOnImageUrl, poseInstruction)
generatePoseVariation(tryOnImageUrl, poseInstruction) ==
  [tryOnImageUrl EXCEPT !.pose = poseInstruction]

\* geminiService generateSceneVariation(currentImageUrl, sceneDescription)
generateSceneVariation(currentImageUrl, sceneDescription) ==
  [currentImageUrl EXCEPT !.scene = sceneDescription]

\* lib/utils getFriendlyErrorMessage(err, context): a message for the user,
\* never null (its text depends on the failure, which nothing else reads)
getFriendlyErrorMessage(context) == "message"

CannotRemoveBase == "Cannot remove the base model. Please start over to change the model."

(***************************************************************************)
(* poseImages: Record<string, string>, kept in insertion order because     *)
(* Object.values()[0] depends on it. An entry is [pose, image].            *)
(***************************************************************************)
\* Object.keys(poseImages)
PoseKeys(pi) == {pi[k].pose : k \in 1 .. Len(pi)}

\* mutant of PoseGet: the lookup never finds an entry
PoseGetMiss(pi, key) == NoImage

\* poseImages[key], NoImage when the key is absent (undefined)
PoseGet(pi, key) ==
  IF key \in PoseKeys(pi)
  THEN pi[CHOOSE k \in 1 .. Len(pi) : pi[k].pose = key].image
  ELSE NoImage

\* A write that drops the other entries of the layer
PoseSetAlone(pi, key, img) == <<[pose |-> key, image |-> img]>>

\* poseImages[key] = img: an existing key keeps its place, a new key goes last
PoseSet(pi, key, img) ==
  IF key \in PoseKeys(pi)
  THEN [k \in 1 .. Len(pi) |->
          IF pi[k].pose = key THEN [pose |-> key, image |-> img] ELSE pi[k]]
  ELSE Append(pi, [pose |-> key, image |-> img])

\* Object.values(poseImages)[0], NoImage when there is no entry (undefined)
FirstPoseImage(pi) == IF Len(pi) = 0 THEN NoImage ELSE pi[1].image

\* types.ts OutfitLayer
OutfitLayer(g, gs, pi) == [garment |-> g, garments |-> gs, poseImages |-> pi]

(***************************************************************************)
(* State of App                                                            *)
(***************************************************************************)
VARIABLES
  generatedModelUrl,    \* useState<string | null>(null)
  isAppStarted,         \* useState(false)
  outfitHistory,        \* useState<OutfitLayer[]>([])
  currentOutfitIndex,   \* useState(0)
  isLoading,            \* useState(false)
  error,                \* useState<string | null>(null)
  currentPoseIndex,     \* useState(0)
  currentScene,         \* useState("Studio")
  wardrobe,             \* useState<WardrobeItem[]>, the ids in list order
  pending,              \* the handler invocations suspended at an await
  crashed,              \* a state updater threw while React rendered: the tree is gone
  startScreenMounted,   \* the start screen is on the page, shown or animating out
  lastOp                \* the step taken last (what was invoked, what it saw)

vars == <<generatedModelUrl, isAppStarted, outfitHistory, currentOutfitIndex,
          isLoading, error, currentPoseIndex, currentScene, wardrobe, pending,
          crashed, startScreenMounted, lastOp>>

appVars == <<generatedModelUrl, isAppStarted, outfitHistory, currentOutfitIndex,
             isLoading, error, currentPoseIndex, currentScene, wardrobe>>

(***************************************************************************)
(* Derived values of a render (useMemo)                                    *)
(***************************************************************************)
\* App.tsx lines 100-103
activeOutfitLayers ==
  SubSeq(outfitHistory, 1,
         IF currentOutfitIndex + 1 < Len(outfitHistory)
         THEN currentOutfitIndex + 1 ELSE Len(outfitHistory))

\* A projection that reads the primary garment of a layer only
LayerGarmentIdsPrimaryOnly(layer) ==
  IF layer.garment # NoGarment THEN {layer.garment} ELSE {}

\* App.tsx lines 105-115
LayerGarmentIds(layer) ==
  IF layer.garments # NoGarments
  THEN {layer.garments[j] : j \in 1 .. Len(layer.garments)}
  ELSE IF layer.garment # NoGarment THEN {layer.garment} ELSE {}

activeGarmentIds ==
  UNION {LayerGarmentIds(activeOutfitLayers[k]) : k \in 1 .. Len(activeOutfitLayers)}

\* App.tsx lines 117-124 (history index i of the code is position i + 1 here)
displayImageUrl ==
  IF Len(outfitHistory) = 0 THEN generatedModelUrl
  ELSE IF currentOutfitIndex + 1 > Len(outfitHistory) THEN generatedModelUrl
  ELSE LET currentLayer == outfitHistory[currentOutfitIndex + 1]
           poseInstruction == POSE_INSTRUCTIONS(currentPoseIndex)
       IN  IF PoseGet(currentLayer.poseImages, poseInstruction) # NoImage
           THEN PoseGet(currentLayer.poseImages, poseInstruction)
           ELSE FirstPoseImage(currentLayer.poseImages)

\* App.tsx lines 126-130
availablePoseKeys ==
  IF Len(outfitHistory) = 0 THEN {}
  ELSE IF currentOutfitIndex + 1 > Len(outfitHistory) THEN {}
  ELSE PoseKeys(outfitHistory[currentOutfitIndex + 1].poseImages)

\* App.tsx lines 419-489: the studio (Canvas, WardrobePanel, OutfitStack) is on
\* the page; handleBackToStart is taken to bring the start screen back at once
StudioMounted == isAppStarted /\ ~startScreenMounted

\* App.tsx lines 387-388
canUndo == currentOutfitIndex > 0
canRedo == currentOutfitIndex < Len(outfitHistory) - 1

(***************************************************************************)
(* Sequences                                                               *)
(***************************************************************************)
Min(a, b) == IF a < b THEN a ELSE b
Max(a, b) == IF a > b THEN a ELSE b

\* Array.prototype.slice(0, end) for end >= 0
Slice(arr, end) == SubSeq(arr, 1, Min(end, Len(arr)))

\* Array.prototype.splice(index, 1) on a copy, for index >= 0
Splice(arr, index) ==
  IF index + 1 > Len(arr) THEN arr
  ELSE SubSeq(arr, 1, index) \o SubSeq(arr, index + 2, Len(arr))

\* the sequence s without its i-th element
Without(s, i) == SubSeq(s, 1, i - 1) \o SubSeq(s, i + 1, Len(s))

Ids(list) == {list[k] : k \in 1 .. Len(list)}

\* Array.prototype.filter(item => item.id !== itemId)
RECURSIVE FilterOut(_, _)
FilterOut(list, itemId) ==
  IF list = << >> THEN << >>
  ELSE IF Head(list) = itemId THEN FilterOut(Tail(list), itemId)
       ELSE <<Head(list)>> \o FilterOut(Tail(list), itemId)

\* the selection a multi try-on submits: the items in the order chosen
ItemLists == {<<1, 2>>}

(***************************************************************************)
(* Requests: an invocation of an async handler that is suspended at an     *)
(* await. idx, pose, wardrobe and image are what its closure captured from *)
(* the render in which it was invoked.                                     *)
(***************************************************************************)
Request(kind, image, garment, items, newIndex, scene) ==
  [kind |-> kind, phase |-> "call",
   idx |-> currentOutfitIndex, pose |-> currentPoseIndex,
   wardrobe |-> IF kind = "garment" THEN wardrobe ELSE << >>,
   image |-> image, garment |-> garment, items |-> items,
   newIndex |-> newIndex, scene |-> scene]

NoRequest ==
  [kind |-> "none", phase |-> "none", idx |-> 0, pose |-> 0, wardrobe |-> << >>,
   image |-> NoImage, garment |-> NoGarment, items |-> << >>, newIndex |-> 0,
   scene |-> ""]

\* the step taken last: the handler or continuation, its argument, the request
\* it dispatched or completed, the image it obtained (from an external call or
\* from the pose cache), whether it ended by throwing, the history length and
\* the cursor it started from, and the scene asked of handleSceneSelect
Op(name, arg, req, image, threw) ==
  [op |-> name, arg |-> arg, req |-> req, image |-> image, threw |-> threw,
   len |-> Len(outfitHistory), idx |-> currentOutfitIndex, scene |-> ""]

\* the external calls that are outstanding (the engine operations in flight)
Outstanding == {i \in 1 .. Len(pending) : pending[i].phase = "call"}

Init ==
  /\ generatedModelUrl = NoImage
  /\ isAppStarted = FALSE
  /\ outfitHistory = << >>
  /\ currentOutfitIndex = 0
  /\ isLoading = FALSE
  /\ error = NoError
  /\ currentPoseIndex = 0
  /\ currentScene = "Studio"
  /\ wardrobe = defaultWardrobe
  /\ pending = << >>
  /\ crashed = FALSE
  /\ startScreenMounted = TRUE
  /\ lastOp = Op("init", 0, NoRequest, NoImage, FALSE)

(***************************************************************************)
(* Start screen                                                            *)
(***************************************************************************)
\* StartScreen "Enter Studio" (line 1269): the model image it holds is the one
\* App handed it (initialImage) or, without one, one generateModelImage returned
StartScreenModelUrl ==
  IF generatedModelUrl # NoImage THEN generatedModelUrl
  ELSE generateModelImage

\* App.tsx lines 392-418: AnimatePresence mode="wait" keeps the start screen on
\* the page, with its buttons, while it animates out after isAppStarted became
\* true, and mounts the studio only when that animation has ended
startScreenExited ==
  /\ ~crashed /\ isAppStarted /\ startScreenMounted
  /\ startScreenMounted' = FALSE
  /\ lastOp' = Op("startScreenExited", 0, NoRequest, NoImage, FALSE)
  /\ UNCHANGED <<generatedModelUrl, isAppStarted, outfitHistory, currentOutfitIndex,
                 isLoading, error, currentPoseIndex, currentScene, wardrobe,
                 pending, crashed>>

\* mutant of BaseLayer: the base layer is keyed by another pose than the default
BaseLayerOtherPose(url) ==
  OutfitLayer(NoGarment, NoGarments,
              <<[pose |-> POSE_INSTRUCTIONS(1), image |-> url]>>)

\* App.tsx lines 154-157: the layer handleModelFinalized builds
BaseLayer(url) ==
  OutfitLayer(NoGarment, NoGarments,
              <<[pose |-> POSE_INSTRUCTIONS(0), image |-> url]>>)

\* App.tsx lines 151-159
handleModelFinalized ==
  /\ ~crashed /\ startScreenMounted
  /\ LET url == StartScreenModelUrl IN
       /\ generatedModelUrl' = url
       /\ isAppStarted' = TRUE
       /\ outfitHistory' = <<BaseLayer(url)>>
       /\ currentOutfitIndex' = 0
       /\ lastOp' = Op("handleModelFinalized", 0, NoRequest, url, FALSE)
  /\ UNCHANGED <<isLoading, error, currentPoseIndex, currentScene, wardrobe,
                 pending, crashed>>
  /\ UNCHANGED startScreenMounted

\* App.tsx lines 161-170
handleBackToStart ==
  /\ ~crashed /\ StudioMounted
  /\ isAppStarted' = FALSE
  /\ outfitHistory' = << >>
  /\ currentOutfitIndex' = 0
  /\ isLoading' = FALSE
  /\ error' = NoError
  /\ currentPoseIndex' = 0
  /\ currentScene' = "Studio"
  /\ lastOp' = Op("handleBackToStart", 0, NoRequest, NoImage, FALSE)
  /\ UNCHANGED <<generatedModelUrl, wardrobe, pending, crashed>>
  /\ startScreenMounted' = TRUE

\* App.tsx lines 172-179
handleFullReset ==
  /\ ~crashed /\ startScreenMounted
  /\ generatedModelUrl' = NoImage
  /\ isAppStarted' = FALSE
  /\ outfitHistory' = << >>
  /\ currentOutfitIndex' = 0
  /\ wardrobe' = defaultWardrobe
  /\ lastOp' = Op("handleFullReset", 0, NoRequest, NoImage, FALSE)
  /\ UNCHANGED <<isLoading, error, currentPoseIndex, currentScene, pending, crashed>>
  /\ UNCHANGED startScreenMounted

(***************************************************************************)
(* Timeline navigation                                                     *)
(***************************************************************************)
\* App.tsx lines 273-274: the cursor handleUndo leaves
UndoIndex(index) == IF index > 0 THEN index - 1 ELSE index

\* A redo that tests the cursor against the length instead of the last index
RedoIndexPastEnd(index, length) == IF index < length THEN index + 1 ELSE index

\* App.tsx lines 280-281: the cursor handleRedo leaves
RedoIndex(index, length) == IF index < length - 1 THEN index + 1 ELSE index

\* App.tsx lines 272-277
handleUndo ==
  /\ ~crashed /\ StudioMounted
  /\ currentOutfitIndex' = UndoIndex(currentOutfitIndex)
  /\ currentPoseIndex' = IF currentOutfitIndex > 0 THEN 0 ELSE currentPoseIndex
  /\ lastOp' = Op("handleUndo", 0, NoRequest, NoImage, FALSE)
  /\ UNCHANGED <<generatedModelUrl, isAppStarted, outfitHistory, isLoading, error,
                 currentScene, wardrobe, pending, crashed>>
  /\ UNCHANGED startScreenMounted

\* App.tsx lines 279-284
handleRedo ==
  /\ ~crashed /\ StudioMounted
  /\ currentOutfitIndex' = RedoIndex(currentOutfitIndex, Len(outfitHistory))
  /\ currentPoseIndex' = IF currentOutfitIndex < Len(outfitHistory) - 1
                         THEN 0 ELSE currentPoseIndex
  /\ lastOp' = Op("handleRedo", 0, NoRequest, NoImage, FALSE)
  /\ UNCHANGED <<generatedModelUrl, isAppStarted, outfitHistory, isLoading, error,
                 currentScene, wardrobe, pending, crashed>>
  /\ UNCHANGED startScreenMounted

\* App.tsx lines 286-288
handleRemoveWardrobeItem(itemId) ==
  /\ ~crashed /\ StudioMounted
  /\ wardrobe' = FilterOut(wardrobe, itemId)
  /\ lastOp' = Op("handleRemoveWardrobeItem", itemId, NoRequest, NoImage, FALSE)
  /\ UNCHANGED <<generatedModelUrl, isAppStarted, outfitHistory, currentOutfitIndex,
                 isLoading, error, currentPoseIndex, currentScene, pending, crashed>>
  /\ UNCHANGED startScreenMounted

\* mutant of RemoveLayerRefused: the base layer is removable like any other
RemoveLayerRefusedNever(index) == FALSE

\* A guard that also refuses while the busy flag is set
RemoveLayerRefusedWhileBusy(index) == index = 0 \/ isLoading

\* App.tsx line 291: the index handleRemoveLayer refuses
RemoveLayerRefused(index) == index = 0

\* App.tsx lines 296-300: the updater of setOutfitHistory
RemoveLayerHistory(prev, index) == Splice(prev, index)

\* A removal that never moves the cursor
RemoveLayerIndexKept(cursor, index) == cursor

\* mutant of RemoveLayerIndex: the cursor is decremented wherever it stands
RemoveLayerIndexAlways(cursor, index) == Max(0, cursor - 1)

\* App.tsx lines 302-304: the cursor handleRemoveLayer leaves
RemoveLayerIndex(cursor, index) ==
  IF cursor >= index THEN Max(0, cursor - 1) ELSE cursor

\* App.tsx lines 290-305. The handler is taken over every index of the history;
\* the buttons of OutfitStack hand it the indices 1 .. currentOutfitIndex.
handleRemoveLayer(index) ==
  /\ ~crashed /\ StudioMounted
  /\ IF RemoveLayerRefused(index)
     THEN /\ error' = CannotRemoveBase
          /\ UNCHANGED <<outfitHistory, currentOutfitIndex>>
     ELSE /\ outfitHistory' = RemoveLayerHistory(outfitHistory, index)
          /\ currentOutfitIndex' = RemoveLayerIndex(currentOutfitIndex, index)
          /\ UNCHANGED error
  /\ lastOp' = Op("handleRemoveLayer", index, NoRequest, NoImage, FALSE)
  /\ UNCHANGED <<generatedModelUrl, isAppStarted, isLoading, currentPoseIndex,
                 currentScene, wardrobe, pending, crashed>>
  /\ UNCHANGED startScreenMounted

(***************************************************************************)
(* Garment application                                                     *)
(***************************************************************************)
\* App.tsx lines 181-193: handleGarmentSelect up to its await
handleGarmentSelect(garmentInfo) ==
  /\ ~crashed /\ StudioMounted
  /\ LET currentImage == displayImageUrl
         req == Request("garment", currentImage, garmentInfo, << >>, 0, "")
     IN  IF currentImage = NoImage \/ isLoading
         THEN /\ lastOp' = Op("handleGarmentSelect", garmentInfo, NoRequest, NoImage, FALSE)
              /\ UNCHANGED <<error, isLoading, pending>>
         ELSE /\ error' = NoError
              /\ isLoading' = TRUE
              /\ pending' = Append(pending, req)
              /\ lastOp' = Op("handleGarmentSelect", garmentInfo, req, NoImage, FALSE)
  /\ UNCHANGED <<generatedModelUrl, isAppStarted, outfitHistory, currentOutfitIndex,
                 currentPoseIndex, currentScene, wardrobe, crashed>>
  /\ UNCHANGED startScreenMounted

\* App.tsx lines 234-242: handleMultiGarmentSelect up to its await
handleMultiGarmentSelect(items) ==
  /\ ~crashed /\ StudioMounted
  /\ LET currentImage == displayImageUrl
         req == Request("multi", currentImage, NoGarment, items, 0, "")
     IN  IF currentImage = NoImage \/ isLoading \/ Len(items) = 0
         THEN /\ lastOp' = Op("handleMultiGarmentSelect", Len(items), NoRequest, NoImage, FALSE)
              /\ UNCHANGED <<error, isLoading, pending>>
         ELSE /\ error' = NoError
              /\ isLoading' = TRUE
              /\ pending' = Append(pending, req)
              /\ lastOp' = Op("handleMultiGarmentSelect", Len(items), req, NoImage, FALSE)
  /\ UNCHANGED <<generatedModelUrl, isAppStarted, outfitHistory, currentOutfitIndex,
                 currentPoseIndex, currentScene, wardrobe, crashed>>
  /\ UNCHANGED startScreenMounted

\* mutant of NewLayer: the primary garment of an outfit is its last item
NewLayerLastItem(req, newImageUrl) ==
  LET poseImages == <<[pose |-> POSE_INSTRUCTIONS(req.pose), image |-> newImageUrl]>>
  IN  IF req.kind = "garment"
      THEN OutfitLayer(req.garment, NoGarments, poseImages)
      ELSE OutfitLayer(req.items[Len(req.items)], req.items, poseImages)

\* App.tsx lines 199-202 and 250-254: the layer a resolved application builds
NewLayer(req, newImageUrl) ==
  LET currentPoseInstruction == POSE_INSTRUCTIONS(req.pose)
      poseImages == <<[pose |-> currentPoseInstruction, image |-> newImageUrl]>>
  IN  IF req.kind = "garment"
      THEN OutfitLayer(req.garment, NoGarments, poseImages)
      ELSE OutfitLayer(req.items[1], req.items, poseImages)

\* mutant of AppendLayer: the layers above the captured index are kept
AppendLayerKeepAll(prevHistory, capturedIndex, newLayer) ==
  prevHistory \o <<newLayer>>

\* App.tsx lines 204-207 and 256-259: the updater of setOutfitHistory
AppendLayer(prevHistory, capturedIndex, newLayer) ==
  Slice(prevHistory, capturedIndex + 1) \o <<newLayer>>

\* App.tsx lines 208 and 260: the updater of setCurrentOutfitIndex
AdvanceIndex(prev) == prev + 1

\* App.tsx line 211
isNewItem(req) == req.garment \notin Ids(req.wardrobe)

\* App.tsx lines 196-208 (and 229-230 when the item is known): the try-on call
\* of a single garment resolved
garmentResolved(i) ==
  /\ ~crashed
  /\ i \in 1 .. Len(pending)
  /\ pending[i].kind = "garment" /\ pending[i].phase = "call"
  /\ LET req == pending[i]
         newImageUrl == generateVirtualTryOnImage(req.image, req.garment)
         newHistory == AppendLayer(outfitHistory, req.idx, NewLayer(req, newImageUrl))
     IN  /\ outfitHistory' = newHistory
         /\ currentOutfitIndex' = AdvanceIndex(currentOutfitIndex)
         /\ IF isNewItem(req)
            THEN /\ pending' = [pending EXCEPT ![i].phase = "persist"]
                 /\ UNCHANGED isLoading
            ELSE /\ pending' = Without(pending, i)
                 /\ isLoading' = FALSE
         /\ lastOp' = Op("garmentResolved", 0, req, newImageUrl, FALSE)
  /\ UNCHANGED <<generatedModelUrl, isAppStarted, error, currentPoseIndex,
                 currentScene, wardrobe, crashed>>
  /\ UNCHANGED startScreenMounted

\* An updater that never adds the item
RegisterItemNever(prev, itemId) == prev

\* An updater that adds the item without looking for its id
RegisterItemAgain(prev, itemId) == Append(prev, itemId)

\* App.tsx lines 216-219: the updater of setWardrobe
RegisterItem(prev, itemId) ==
  IF itemId \in Ids(prev) THEN prev ELSE Append(prev, itemId)

\* App.tsx lines 214-219 and 229-230: fileToBase64 resolved
garmentPersisted(i) ==
  /\ ~crashed
  /\ i \in 1 .. Len(pending)
  /\ pending[i].kind = "garment" /\ pending[i].phase = "persist"
  /\ wardrobe' = RegisterItem(wardrobe, pending[i].garment)
  /\ isLoading' = FALSE
  /\ pending' = Without(pending, i)
  /\ lastOp' = Op("garmentPersisted", 0, pending[i], NoImage, FALSE)
  /\ UNCHANGED <<generatedModelUrl, isAppStarted, outfitHistory, currentOutfitIndex,
                 error, currentPoseIndex, currentScene, crashed>>
  /\ UNCHANGED startScreenMounted

\* App.tsx lines 220-222 and 229-230: fileToBase64 threw
garmentPersistFailed(i) ==
  /\ ~crashed
  /\ i \in 1 .. Len(pending)
  /\ pending[i].kind = "garment" /\ pending[i].phase = "persist"
  /\ isLoading' = FALSE
  /\ pending' = Without(pending, i)
  /\ lastOp' = Op("garmentPersistFailed", 0, pending[i], NoImage, FALSE)
  /\ UNCHANGED <<generatedModelUrl, isAppStarted, outfitHistory, currentOutfitIndex,
                 error, currentPoseIndex, currentScene, wardrobe, crashed>>
  /\ UNCHANGED startScreenMounted

\* mutant of garmentRejected: the failed attempt leaves a layer without image
garmentRejectedHalfWritten(i) ==
  /\ ~crashed
  /\ i \in 1 .. Len(pending)
  /\ pending[i].kind = "garment" /\ pending[i].phase = "call"
  /\ outfitHistory' =
       AppendLayer(outfitHistory, pending[i].idx, NewLayer(pending[i], NoImage))
  /\ error' = getFriendlyErrorMessage("Failed to apply garment")
  /\ isLoading' = FALSE
  /\ pending' = Without(pending, i)
  /\ lastOp' = Op("garmentRejected", 0, pending[i], NoImage, FALSE)
  /\ UNCHANGED <<generatedModelUrl, isAppStarted, currentOutfitIndex,
                 currentPoseIndex, currentScene, wardrobe, crashed>>
  /\ UNCHANGED startScreenMounted

\* App.tsx lines 225-230: the try-on call of a single garment threw
garmentRejected(i) ==
  /\ ~crashed
  /\ i \in 1 .. Len(pending)
  /\ pending[i].kind = "garment" /\ pending[i].phase = "call"
  /\ error' = getFriendlyErrorMessage("Failed to apply garment")
  /\ isLoading' = FALSE
  /\ pending' = Without(pending, i)
  /\ lastOp' = Op("garmentRejected", 0, pending[i], NoImage, FALSE)
  /\ UNCHANGED <<generatedModelUrl, isAppStarted, outfitHistory, currentOutfitIndex,
                 currentPoseIndex, currentScene, wardrobe, crashed>>
  /\ UNCHANGED startScreenMounted

\* App.tsx lines 244-260 and 265-267: the multi-garment call resolved
multiResolved(i) ==
  /\ ~crashed
  /\ i \in 1 .. Len(pending)
  /\ pending[i].kind = "multi"
  /\ LET req == pending[i]
         newImageUrl == generateMultiGarmentTryOn(req.image, req.items)
         newHistory == AppendLayer(outfitHistory, req.idx, NewLayer(req, newImageUrl))
     IN  /\ outfitHistory' = newHistory
         /\ currentOutfitIndex' = AdvanceIndex(currentOutfitIndex)
         /\ lastOp' = Op("multiResolved", 0, req, newImageUrl, FALSE)
  /\ isLoading' = FALSE
  /\ pending' = Without(pending, i)
  /\ UNCHANGED <<generatedModelUrl, isAppStarted, error, currentPoseIndex,
                 currentScene, wardrobe, crashed>>
  /\ UNCHANGED startScreenMounted

\* App.tsx lines 262-267: the multi-garment call threw
multiRejected(i) ==
  /\ ~crashed
  /\ i \in 1 .. Len(pending)
  /\ pending[i].kind = "multi"
  /\ error' = getFriendlyErrorMessage("Failed to apply outfit")
  /\ isLoading' = FALSE
  /\ pending' = Without(pending, i)
  /\ lastOp' = Op("multiRejected", 0, pending[i], NoImage, FALSE)
  /\ UNCHANGED <<generatedModelUrl, isAppStarted, outfitHistory, currentOutfitIndex,
                 currentPoseIndex, currentScene, wardrobe, crashed>>
  /\ UNCHANGED startScreenMounted

(***************************************************************************)
(* Pose change                                                             *)
(***************************************************************************)
\* App.tsx lines 307-326: handlePoseSelect up to its await. Reading poseImages
\* of a layer that does not exist (the cursor is past the end of the history)
\* throws: the promise of the handler rejects, unhandled.
handlePoseSelect(newIndex) ==
  /\ ~crashed /\ StudioMounted
  /\ IF isLoading \/ Len(outfitHistory) = 0 \/ newIndex = currentPoseIndex
     THEN /\ lastOp' = Op("handlePoseSelect", newIndex, NoRequest, NoImage, FALSE)
          /\ UNCHANGED <<error, isLoading, currentPoseIndex, pending>>
     ELSE IF currentOutfitIndex + 1 > Len(outfitHistory)
     THEN /\ lastOp' = Op("handlePoseSelect", newIndex, NoRequest, NoImage, TRUE)
          /\ UNCHANGED <<error, isLoading, currentPoseIndex, pending>>
     ELSE LET poseInstruction == POSE_INSTRUCTIONS(newIndex)
              currentLayer == outfitHistory[currentOutfitIndex + 1]
              baseImageForPoseChange == FirstPoseImage(currentLayer.poseImages)
              req == Request("pose", baseImageForPoseChange, NoGarment, << >>,
                             newIndex, "")
          IN  IF PoseGet(currentLayer.poseImages, poseInstruction) # NoImage
              THEN /\ currentPoseIndex' = newIndex
                   /\ lastOp' = Op("handlePoseSelect", newIndex, NoRequest,
                                   PoseGet(currentLayer.poseImages, poseInstruction),
                                   FALSE)
                   /\ UNCHANGED <<error, isLoading, pending>>
              ELSE IF baseImageForPoseChange = NoImage
              THEN /\ lastOp' = Op("handlePoseSelect", newIndex, NoRequest, NoImage, FALSE)
                   /\ UNCHANGED <<error, isLoading, currentPoseIndex, pending>>
              ELSE /\ error' = NoError
                   /\ isLoading' = TRUE
                   /\ currentPoseIndex' = newIndex
                   /\ pending' = Append(pending, req)
                   /\ lastOp' = Op("handlePoseSelect", newIndex, req, NoImage, FALSE)
  /\ UNCHANGED <<generatedModelUrl, isAppStarted, outfitHistory, currentOutfitIndex,
                 currentScene, wardrobe, crashed>>
  /\ UNCHANGED startScreenMounted

\* App.tsx lines 330-335: the updater of setOutfitHistory; it is applied only
\* when the captured index names a layer of prevHistory
SetPoseImage(prevHistory, capturedIndex, poseInstruction, newImageUrl) ==
  [prevHistory EXCEPT ![capturedIndex + 1].poseImages =
     PoseSet(@, poseInstruction, newImageUrl)]

\* App.tsx lines 329-335 and 340-341: generatePoseVariation resolved. When the
\* captured index names no layer the updater throws while React renders, and
\* with no error boundary the whole tree unmounts.
poseResolved(i) ==
  /\ ~crashed
  /\ i \in 1 .. Len(pending)
  /\ pending[i].kind = "pose"
  /\ LET req == pending[i]
         newImageUrl == generatePoseVariation(req.image, POSE_INSTRUCTIONS(req.newIndex))
     IN  /\ IF req.idx + 1 > Len(outfitHistory)
            THEN /\ crashed' = TRUE
                 /\ UNCHANGED outfitHistory
            ELSE /\ outfitHistory' =
                      SetPoseImage(outfitHistory, req.idx,
                                   POSE_INSTRUCTIONS(req.newIndex), newImageUrl)
                 /\ UNCHANGED crashed
         /\ lastOp' = Op("poseResolved", 0, req, newImageUrl,
                         req.idx + 1 > Len(outfitHistory))
  /\ isLoading' = FALSE
  /\ pending' = Without(pending, i)
  /\ UNCHANGED <<generatedModelUrl, isAppStarted, currentOutfitIndex, error,
                 currentPoseIndex, currentScene, wardrobe>>
  /\ UNCHANGED startScreenMounted

\* mutant of prevPoseIndex: the optimistic pose index stays
prevPoseIndexOptimistic(req) == req.newIndex

\* App.tsx line 325: the pose index the handler saved before its optimistic
\* update, restored at line 338
prevPoseIndex(req) == req.pose

\* App.tsx lines 336-341: generatePoseVariation threw
poseRejected(i) ==
  /\ ~crashed
  /\ i \in 1 .. Len(pending)
  /\ pending[i].kind = "pose"
  /\ error' = getFriendlyErrorMessage("Failed to change pose")
  /\ currentPoseIndex' = prevPoseIndex(pending[i])
  /\ isLoading' = FALSE
  /\ pending' = Without(pending, i)
  /\ lastOp' = Op("poseRejected", 0, pending[i], NoImage, FALSE)
  /\ UNCHANGED <<generatedModelUrl, isAppStarted, outfitHistory, currentOutfitIndex,
                 currentScene, wardrobe, crashed>>
  /\ UNCHANGED startScreenMounted

(***************************************************************************)
(* Scene change                                                            *)
(***************************************************************************)
\* App.tsx lines 345-354: handleSceneSelect up to its await
handleSceneSelect(scene) ==
  /\ ~crashed /\ StudioMounted
  /\ LET currentImage == displayImageUrl
         req == Request("scene", currentImage, NoGarment, << >>, 0, scene)
     IN  IF isLoading \/ currentImage = NoImage \/ scene = currentScene
         THEN /\ lastOp' = [Op("handleSceneSelect", 0, NoRequest, NoImage, FALSE)
                            EXCEPT !.scene = scene]
              /\ UNCHANGED <<error, isLoading, pending>>
         ELSE /\ error' = NoError
              /\ isLoading' = TRUE
              /\ pending' = Append(pending, req)
              /\ lastOp' = [Op("handleSceneSelect", 0, req, NoImage, FALSE)
                            EXCEPT !.scene = scene]
  /\ UNCHANGED <<generatedModelUrl, isAppStarted, outfitHistory, currentOutfitIndex,
                 currentPoseIndex, currentScene, wardrobe, crashed>>
  /\ UNCHANGED startScreenMounted

\* App.tsx lines 359-370: the updater of setOutfitHistory
SetSceneImage(prevHistory, capturedIndex, capturedPoseIndex, newImageUrl) ==
  IF capturedIndex >= Len(prevHistory) THEN prevHistory
  ELSE [prevHistory EXCEPT ![capturedIndex + 1].poseImages =
          PoseSet(@, POSE_INSTRUCTIONS(capturedPoseIndex), newImageUrl)]

\* App.tsx lines 357-371 and 376-377: generateSceneVariation resolved
sceneResolved(i) ==
  /\ ~crashed
  /\ i \in 1 .. Len(pending)
  /\ pending[i].kind = "scene"
  /\ LET req == pending[i]
         newImageUrl == generateSceneVariation(req.image, req.scene)
     IN  /\ outfitHistory' = SetSceneImage(outfitHistory, req.idx, req.pose, newImageUrl)
         /\ currentScene' = req.scene
         /\ lastOp' = Op("sceneResolved", 0, req, newImageUrl, FALSE)
  /\ isLoading' = FALSE
  /\ pending' = Without(pending, i)
  /\ UNCHANGED <<generatedModelUrl, isAppStarted, currentOutfitIndex, error,
                 currentPoseIndex, wardrobe, crashed>>
  /\ UNCHANGED startScreenMounted

\* A failure path that commits the requested scene all the same
sceneRejectedSetsScene(i) ==
  /\ ~crashed
  /\ i \in 1 .. Len(pending)
  /\ pending[i].kind = "scene"
  /\ error' = getFriendlyErrorMessage("Failed to change scene")
  /\ isLoading' = FALSE
  /\ pending' = Without(pending, i)
  /\ currentScene' = pending[i].scene
  /\ lastOp' = Op("sceneRejected", 0, pending[i], NoImage, FALSE)
  /\ UNCHANGED <<generatedModelUrl, isAppStarted, outfitHistory, currentOutfitIndex,
                 currentPoseIndex, wardrobe, crashed>>
  /\ UNCHANGED startScreenMounted

\* App.tsx lines 373-377: generateSceneVariation threw
sceneRejected(i) ==
  /\ ~crashed
  /\ i \in 1 .. Len(pending)
  /\ pending[i].kind = "scene"
  /\ error' = getFriendlyErrorMessage("Failed to change scene")
  /\ isLoading' = FALSE
  /\ pending' = Without(pending, i)
  /\ lastOp' = Op("sceneRejected", 0, pending[i], NoImage, FALSE)
  /\ UNCHANGED <<generatedModelUrl, isAppStarted, outfitHistory, currentOutfitIndex,
                 currentPoseIndex, currentScene, wardrobe, crashed>>
  /\ UNCHANGED startScreenMounted

(***************************************************************************)
(* Specifications.  The whole program has too many states to enumerate at  *)
(* once, so each specification takes the handlers of one part of the       *)
(* program together with the handlers that interleave with them, under its *)
(* own bounds, imposed on the state a step leads to.                       *)
(***************************************************************************)
WithinBounds ==
  Len(pending) <= MaxPending /\ Len(outfitHistory) <= MaxLayers

WithinEngineBounds ==
  Len(pending) <= MaxEnginePending /\ Len(outfitHistory) <= MaxEngineLayers

WithinWardrobeBounds ==
  Len(pending) <= MaxWardrobePending /\ Len(outfitHistory) <= MaxWardrobeLayers

\* The outfit timeline: the start screen, the garment operations and their
\* completions, undo, redo and layer removal.
Next ==
  \/ handleModelFinalized
  \/ startScreenExited
  \/ handleBackToStart
  \/ handleFullReset
  \/ handleUndo
  \/ handleRedo
  \/ \E index \in 0 .. (Len(outfitHistory) - 1) : handleRemoveLayer(index)
  \/ \E g \in GarmentIds : handleGarmentSelect(g) /\ WithinBounds'
  \/ \E items \in ItemLists :
       handleMultiGarmentSelect(items) /\ WithinBounds'
  \/ \E i \in 1 .. MaxPending : garmentResolved(i) /\ WithinBounds'
  \/ \E i \in 1 .. MaxPending : garmentRejected(i)
  \/ \E i \in 1 .. MaxPending : multiResolved(i) /\ WithinBounds'
  \/ \E i \in 1 .. MaxPending : multiRejected(i)

Spec == Init /\ [][Next]_vars

\* The four engine operations: garment, outfit, pose and scene, with undo,
\* redo, layer removal and the return to the start screen between a call and
\* its completion.
NextEngine ==
  \/ handleModelFinalized
  \/ startScreenExited
  \/ handleBackToStart
  \/ handleUndo
  \/ handleRedo
  \/ \E index \in 0 .. (Len(outfitHistory) - 1) : handleRemoveLayer(index)
  \/ \E g \in EngineGarmentIds :
       handleGarmentSelect(g) /\ WithinEngineBounds'
  \/ \E items \in ItemLists :
       handleMultiGarmentSelect(items) /\ WithinEngineBounds'
  \/ \E newIndex \in PoseIndices :
       handlePoseSelect(newIndex) /\ WithinEngineBounds'
  \/ \E scene \in SCENE_OPTIONS :
       handleSceneSelect(scene) /\ WithinEngineBounds'
  \/ \E i \in 1 .. MaxEnginePending :
       garmentResolved(i) /\ WithinEngineBounds'
  \/ \E i \in 1 .. MaxEnginePending : garmentRejected(i)
  \/ \E i \in 1 .. MaxEnginePending :
       multiResolved(i) /\ WithinEngineBounds'
  \/ \E i \in 1 .. MaxEnginePending : multiRejected(i)
  \/ \E i \in 1 .. MaxEnginePending : poseResolved(i)
  \/ \E i \in 1 .. MaxEnginePending : poseRejected(i)
  \/ \E i \in 1 .. MaxEnginePending : sceneResolved(i)
  \/ \E i \in 1 .. MaxEnginePending : sceneRejected(i)

SpecEngine == Init /\ [][NextEngine]_vars

\* The wardrobe: garments the user uploads are registered after their
\* application, and items are removed from the wardrobe.
NextWardrobe ==
  \/ handleModelFinalized
  \/ startScreenExited
  \/ handleFullReset
  \/ handleUndo
  \/ \E itemId \in WardrobeGarmentIds : handleRemoveWardrobeItem(itemId)
  \/ \E g \in WardrobeGarmentIds :
       handleGarmentSelect(g) /\ WithinWardrobeBounds'
  \/ \E i \in 1 .. MaxWardrobePending :
       garmentResolved(i) /\ WithinWardrobeBounds'
  \/ \E i \in 1 .. MaxWardrobePending : garmentPersisted(i)
  \/ \E i \in 1 .. MaxWardrobePending : garmentPersistFailed(i)
  \/ \E i \in 1 .. MaxWardrobePending : garmentRejected(i)

SpecWardrobe == Init /\ [][NextWardrobe]_vars

WithinRegistrationBounds ==
  /\ Len(pending) <= MaxRegistrationPending
  /\ Len(outfitHistory) <= MaxRegistrationLayers

\* Registration of an uploaded garment applied twice: the second application
\* is started after a return to the start screen, while the first is pending.
NextRegistration ==
  \/ handleModelFinalized
  \/ startScreenExited
  \/ handleBackToStart
  \/ \E itemId \in WardrobeGarmentIds \ GarmentIds : handleRemoveWardrobeItem(itemId)
  \/ \E g \in WardrobeGarmentIds \ GarmentIds :
       handleGarmentSelect(g) /\ WithinRegistrationBounds'
  \/ \E i \in 1 .. MaxRegistrationPending :
       garmentResolved(i) /\ WithinRegistrationBounds'
  \/ \E i \in 1 .. MaxRegistrationPending : garmentPersisted(i)
  \/ \E i \in 1 .. MaxRegistrationPending : garmentPersistFailed(i)
  \/ \E i \in 1 .. MaxRegistrationPending : garmentRejected(i)

SpecRegistration == Init /\ [][NextRegistration]_vars

(***************************************************************************)
(* Properties.  A step is recognised by lastOp: lastOp' names the handler  *)
(* or continuation the step ran, lastOp the one that ran before it.        *)
(***************************************************************************)
Resolved == {"garmentResolved", "multiResolved"}
Rejected == {"garmentRejected", "multiRejected", "poseRejected", "sceneRejected"}

\* C1: whenever the timeline is active the history has at least one layer and
\* the cursor names one of its layers: 0 <= currentOutfitIndex < length.
CursorWithinHistory ==
  isAppStarted =>
    /\ Len(outfitHistory) >= 1
    /\ 0 <= currentOutfitIndex
    /\ currentOutfitIndex < Len(outfitHistory)

\* C2: at no time are two engine operations outstanding together.
SingleFlight == Cardinality(Outstanding) <= 1

\* C3: the layer at index 0 of a non-empty history is the base layer, its
\* garment is null.
BaseLayerFirst ==
  Len(outfitHistory) > 0 => outfitHistory[1].garment = NoGarment

CursorAtNewLayer ==
  lastOp.op \in Resolved =>
    /\ Len(outfitHistory) >= 1
    /\ outfitHistory[Len(outfitHistory)].poseImages =
         <<[pose |-> POSE_INSTRUCTIONS(lastOp.req.pose), image |-> lastOp.image]>>
    /\ currentOutfitIndex = Len(outfitHistory) - 1

\* C6 as stated: right after the call of an engine operation failed, the cursor
\* is the one the operation was invoked with and the error slot is set.
FailureRestoresInvocationState ==
  lastOp.op \in Rejected =>
    /\ currentOutfitIndex = lastOp.req.idx
    /\ error # NoError

\* C6 amended: the step that handles the failed call of an engine operation
\* changes neither the history nor the cursor and sets the error slot.
FailureLeavesTimeline ==
  [][lastOp'.op \in Rejected =>
       /\ outfitHistory' = outfitHistory
       /\ currentOutfitIndex' = currentOutfitIndex
       /\ error' # NoError]_vars

\* C6 witness: the call of a scene change failed after a layer had been removed
\* while it was pending.
FailureAfterRemovalReached ==
  /\ lastOp.op = "sceneRejected"
  /\ lastOp.req.idx = 1 /\ lastOp.len = 1
  /\ currentOutfitIndex = 0
  /\ error # NoError

UndoRedoInverse ==
  [][(/\ lastOp.op = "handleUndo" /\ lastOp.idx > 0
      /\ lastOp'.op = "handleRedo")
     => /\ currentOutfitIndex' = lastOp.idx
        /\ outfitHistory' = outfitHistory]_vars

\* C9: removal guard. handleRemoveLayer(0) changes neither the history nor the
\* cursor and sets the error slot to the cannot-remove-the-base message.
RemovalGuard ==
  [][(lastOp'.op = "handleRemoveLayer" /\ lastOp'.arg = 0)
     => /\ outfitHistory' = outfitHistory
        /\ currentOutfitIndex' = currentOutfitIndex
        /\ error' = CannotRemoveBase]_vars

\* C9 witness: handleRemoveLayer(0) ran on a history of several layers.
RemovalGuardReached ==
  /\ lastOp.op = "handleRemoveLayer" /\ lastOp.arg = 0
  /\ lastOp.len = 2 /\ Len(outfitHistory) = 2
  /\ error = CannotRemoveBase

\* C10: handleRemoveLayer(index) with 1 <= index < length removes the layer at
\* index and keeps the others in order; the cursor goes down by one, not below
\* 0, when it was >= index and stays otherwise.
RemoveLayerLaw ==
  [][(/\ lastOp'.op = "handleRemoveLayer"
      /\ 1 <= lastOp'.arg /\ lastOp'.arg < Len(outfitHistory))
     => LET index == lastOp'.arg IN
          /\ Len(outfitHistory') = Len(outfitHistory) - 1
          /\ \A j \in 1 .. Len(outfitHistory') :
               outfitHistory'[j] =
                 (IF j <= index THEN outfitHistory[j] ELSE outfitHistory[j + 1])
          /\ IF currentOutfitIndex >= index
             THEN currentOutfitIndex' = currentOutfitIndex - 1
                  /\ currentOutfitIndex' >= 0
             ELSE currentOutfitIndex' = currentOutfitIndex]_vars

\* C10 witness: the middle layer of three was removed with the cursor on the
\* last one, and the cursor followed it down.
RemoveLayerReached ==
  /\ lastOp.op = "handleRemoveLayer" /\ lastOp.arg = 1
  /\ lastOp.len = 3 /\ lastOp.idx = 2
  /\ Len(outfitHistory) = 2 /\ currentOutfitIndex = 1

\* C11: while the timeline is uninitialized (isAppStarted is false) the history
\* is empty and the cursor is 0, whatever completes in the meantime.
UninitializedTimelineEmpty ==
  ~isAppStarted => (outfitHistory = << >> /\ currentOutfitIndex = 0)

\* C12: handleModelFinalized invoked while the timeline is active leaves the
\* history and the cursor as they are.
InitializeFailsWhenActive ==
  [][(lastOp'.op = "handleModelFinalized" /\ isAppStarted)
     => /\ outfitHistory' = outfitHistory
        /\ currentOutfitIndex' = currentOutfitIndex]_vars

\* C13: right after handleModelFinalized(M0) the history is exactly one layer
\* with garment null, no garments list and the single poseImages entry
\* POSE_INSTRUCTIONS[0] -> M0, and the cursor is 0.
InitializeYieldsBaseLayer ==
  lastOp.op = "handleModelFinalized" =>
    /\ lastOp.image # NoImage
    /\ Len(outfitHistory) = 1
    /\ outfitHistory[1].garment = NoGarment
    /\ outfitHistory[1].garments = NoGarments
    /\ outfitHistory[1].poseImages =
         <<[pose |-> POSE_INSTRUCTIONS(0), image |-> lastOp.image]>>
    /\ currentOutfitIndex = 0
    /\ isAppStarted

\* C13 witness: the timeline was initialized from the empty history with the
\* model image the start screen generated.
InitializeReached ==
  /\ lastOp.op = "handleModelFinalized" /\ lastOp.len = 0
  /\ lastOp.image = generateModelImage
  /\ Len(outfitHistory) = 1 /\ currentOutfitIndex = 0

\* C14: right after a single-garment application resolved, the last layer is
\* the new one: its garment is the submitted garmentInfo, it has no garments
\* list, its only poseImages entry maps the pose active at completion to the
\* returned image, and the cursor went up by one.
GarmentLayerAtActivePose ==
  lastOp.op = "garmentResolved" =>
    LET layer == outfitHistory[Len(outfitHistory)] IN
      /\ layer.garment = lastOp.req.garment
      /\ layer.garments = NoGarments
      /\ layer.poseImages =
           <<[pose |-> POSE_INSTRUCTIONS(currentPoseIndex), image |-> lastOp.image]>>
      /\ currentOutfitIndex = lastOp.idx + 1

PoseCacheHit ==
  [][(/\ lastOp'.op = "handlePoseSelect"
      /\ ~isLoading
      /\ currentOutfitIndex < Len(outfitHistory)
      /\ \E k \in 1 .. Len(outfitHistory[currentOutfitIndex + 1].poseImages) :
           outfitHistory[currentOutfitIndex + 1].poseImages[k].pose =
             POSE_INSTRUCTIONS(lastOp'.arg))
     => LET pi == outfitHistory[currentOutfitIndex + 1].poseImages
            k == CHOOSE j \in 1 .. Len(pi) : pi[j].pose = POSE_INSTRUCTIONS(lastOp'.arg)
        IN  /\ pending' = pending
            /\ isLoading' = FALSE
            /\ outfitHistory' = outfitHistory
            /\ currentPoseIndex' = lastOp'.arg
            /\ displayImageUrl' = pi[k].image]_vars

\* C16 witness: handlePoseSelect(0) took the cached image of pose 0 while pose
\* 1 was active, on a layer that holds both poses.
PoseCacheHitReached ==
  /\ lastOp.op = "handlePoseSelect" /\ lastOp.arg = 0
  /\ lastOp.req = NoRequest /\ lastOp.image # NoImage
  /\ currentPoseIndex = 0 /\ ~isLoading
  /\ currentOutfitIndex < Len(outfitHistory)
  /\ Len(outfitHistory[currentOutfitIndex + 1].poseImages) = 2
  /\ displayImageUrl = lastOp.image

\* C17: while the call of an uncached pose change to pose i is pending,
\* currentPoseIndex is i; right after it resolved the returned image is the
\* entry for pose i of the layer at the cursor, the number of layers and the
\* cursor are as before, and currentPoseIndex is i.
PoseChangeCommits ==
  /\ \A j \in 1 .. Len(pending) :
       pending[j].kind = "pose" => currentPoseIndex = pending[j].newIndex
  /\ lastOp.op = "poseResolved" =>
       /\ ~lastOp.threw
       /\ Len(outfitHistory) = lastOp.len
       /\ currentOutfitIndex = lastOp.idx
       /\ currentOutfitIndex < Len(outfitHistory)
       /\ PoseGet(outfitHistory[currentOutfitIndex + 1].poseImages,
                  POSE_INSTRUCTIONS(lastOp.req.newIndex)) = lastOp.image
       /\ currentPoseIndex = lastOp.req.newIndex

\* C18: a scene change that resolved added no layer and left the cursor
\* alone, put the returned image in the entry for the active pose of the
\* layer at the cursor, left every other layer and entry as it was, and set
\* currentScene to the requested scene.
SceneChangeLaw ==
  [][lastOp'.op = "sceneResolved"
     => /\ Len(outfitHistory') = Len(outfitHistory)
        /\ currentOutfitIndex' = currentOutfitIndex
        /\ currentOutfitIndex < Len(outfitHistory)
        /\ outfitHistory' =
             [outfitHistory EXCEPT ![currentOutfitIndex + 1].poseImages =
                PoseSet(@, POSE_INSTRUCTIONS(currentPoseIndex), lastOp'.image)]
        /\ currentScene' = lastOp'.req.scene]_vars

UnmetPreconditionNoOp ==
  [][(/\ lastOp'.op \in {"handleGarmentSelect", "handleMultiGarmentSelect",
                         "handlePoseSelect", "handleSceneSelect"}
      /\ \/ Outstanding # {}
         \/ isLoading
         \/ displayImageUrl = NoImage
         \/ Len(outfitHistory) = 0
         \/ lastOp'.op = "handleMultiGarmentSelect" /\ lastOp'.arg = 0
         \/ lastOp'.op = "handlePoseSelect" /\ lastOp'.arg = currentPoseIndex
         \/ lastOp'.op = "handleSceneSelect" /\ lastOp'.scene = currentScene)
     => /\ UNCHANGED <<outfitHistory, currentOutfitIndex, currentPoseIndex,
                       currentScene, isLoading, error, pending>>
        /\ lastOp'.req = NoRequest]_vars

CanonicalPoseAfterNavigation ==
  (/\ lastOp.op \in {"handleUndo", "handleRedo"}
   /\ currentOutfitIndex # lastOp.idx
   /\ currentOutfitIndex < Len(outfitHistory))
  => /\ PoseGet(outfitHistory[currentOutfitIndex + 1].poseImages,
                POSE_INSTRUCTIONS(0)) # NoImage
     /\ displayImageUrl = PoseGet(outfitHistory[currentOutfitIndex + 1].poseImages,
                                  POSE_INSTRUCTIONS(0))

\* C23: whenever the timeline is active the displayed image is not null and
\* is an image of the layer at the cursor: the entry for the active pose if
\* there is one, otherwise another entry of that layer.
DisplayedFromCursorLayer ==
  Len(outfitHistory) > 0 =>
    /\ displayImageUrl # NoImage
    /\ currentOutfitIndex < Len(outfitHistory)
    /\ LET pi == outfitHistory[currentOutfitIndex + 1].poseImages
       IN  /\ \E k \in 1 .. Len(pi) : pi[k].image = displayImageUrl
           /\ PoseGet(pi, POSE_INSTRUCTIONS(currentPoseIndex)) # NoImage
                => displayImageUrl = PoseGet(pi, POSE_INSTRUCTIONS(currentPoseIndex))

\* C24: when outfitHistory is empty the displayed image is null.
EmptyHistoryShowsNothing ==
  Len(outfitHistory) = 0 => displayImageUrl = NoImage

\* C25: activeGarmentIds is the union of the garment id and of the ids of
\* garments over the layers up to the cursor; ids that occur only in layers
\* above the cursor are not in it.
ActiveGarmentIdsLaw ==
  activeGarmentIds =
    UNION {({outfitHistory[k].garment} \ {NoGarment}) \cup
           (IF outfitHistory[k].garments = NoGarments THEN {}
            ELSE {outfitHistory[k].garments[j] :
                    j \in 1 .. Len(outfitHistory[k].garments)}) :
           k \in {n \in 1 .. Len(outfitHistory) : n <= currentOutfitIndex + 1}}

\* C25 witness: the cursor is on a layer with garment 1 and the layer above
\* it holds the outfit of garments 1 and 2; garment 2 is not active.
ActiveGarmentIdsReached ==
  /\ Len(outfitHistory) = 3
  /\ currentOutfitIndex = 1
  /\ outfitHistory[2].garment = 1
  /\ outfitHistory[3].garments = <<1, 2>>
  /\ activeGarmentIds = {1}

\* C26: every layer of outfitHistory has at least one poseImages entry; a
\* layer is created with exactly one entry, and pose change, scene change,
\* undo, redo and handleRemoveLayer remove no entry from a layer.
PoseEntriesKept ==
  /\ [](/\ \A k \in 1 .. Len(outfitHistory) :
             Len(outfitHistory[k].poseImages) >= 1
        /\ (lastOp.op \in Resolved /\ ~lastOp.threw) =>
             Len(outfitHistory[Len(outfitHistory)].poseImages) = 1
        /\ lastOp.op = "handleModelFinalized" =>
             Len(outfitHistory[1].poseImages) = 1)
  /\ [][/\ lastOp'.op \in {"poseResolved", "sceneResolved", "handleUndo", "handleRedo"}
          => /\ Len(outfitHistory') = Len(outfitHistory)
             /\ \A k \in 1 .. Len(outfitHistory) :
                  PoseKeys(outfitHistory[k].poseImages) \subseteq
                    PoseKeys(outfitHistory'[k].poseImages)
        /\ lastOp'.op = "handleRemoveLayer"
          => \A n \in 1 .. Len(outfitHistory') :
               \E k \in 1 .. Len(outfitHistory) : outfitHistory'[n] = outfitHistory[k]]_vars

\* C26 witness: a scene change resolved on a layer that holds images for two
\* poses, and the layer still holds both.
PoseEntriesKeptReached ==
  /\ lastOp.op = "sceneResolved"
  /\ lastOp.req.idx < Len(outfitHistory)
  /\ Len(outfitHistory[lastOp.req.idx + 1].poseImages) = 2
  /\ \E k \in 1 .. 2 :
       outfitHistory[lastOp.req.idx + 1].poseImages[k].image = lastOp.image

\* C27: the application of a garment whose id was not in the wardrobe when it
\* was selected goes on, once the layer is appended, to the conversion of the
\* file; when the conversion succeeds the item is in the wardrobe, and when
\* it fails the wardrobe, the error slot, the history and the cursor stay as
\* they are.
RegistrationLaw ==
  [][/\ (lastOp'.op = "garmentResolved" /\ ~isNewItem(lastOp'.req))
          => wardrobe' = wardrobe
     /\ (lastOp'.op = "garmentResolved" /\ isNewItem(lastOp'.req))
          => /\ wardrobe' = wardrobe
             /\ \E j \in 1 .. Len(pending') :
                  /\ pending'[j].phase = "persist"
                  /\ pending'[j].garment = lastOp'.req.garment
     /\ lastOp'.op = "garmentPersisted"
          => /\ lastOp'.req.garment \in Ids(wardrobe')
             /\ \/ wardrobe' = wardrobe
                \/ wardrobe' = Append(wardrobe, lastOp'.req.garment)
             /\ UNCHANGED <<outfitHistory, currentOutfitIndex, error>>
     /\ lastOp'.op = "garmentPersistFailed"
          => UNCHANGED <<wardrobe, error, outfitHistory, currentOutfitIndex>>]_vars

\* C27 witness: the conversion of an uploaded garment failed after its layer
\* was appended; the garment is worn and is not in the wardrobe, and no error
\* is shown.
RegistrationFailedReached ==
  /\ lastOp.op = "garmentPersistFailed"
  /\ lastOp.req.garment \notin Ids(wardrobe)
  /\ error = NoError
  /\ Len(outfitHistory) = 2
  /\ currentOutfitIndex = 1
  /\ outfitHistory[2].garment = lastOp.req.garment

\* C28: an engine operation that starts clears the error slot before its call
\* is dispatched, and right after an engine operation succeeded the error
\* slot does not hold the message of a failed operation.
ErrorClearedByLaterSuccess ==
  /\ [][(/\ lastOp'.op \in {"handleGarmentSelect", "handleMultiGarmentSelect",
                            "handlePoseSelect", "handleSceneSelect"}
         /\ lastOp'.req # NoRequest)
        => error' = NoError]_vars
  /\ []((/\ lastOp.op \in {"garmentResolved", "multiResolved",
                           "poseResolved", "sceneResolved"}
         /\ ~lastOp.threw)
        => error \notin {getFriendlyErrorMessage("Failed to apply garment"),
                         getFriendlyErrorMessage("Failed to apply outfit"),
                         getFriendlyErrorMessage("Failed to change pose"),
                         getFriendlyErrorMessage("Failed to change scene")})

\* C29: no step of an engine operation throws: the tree is never unmounted by
\* an updater that threw, and no handler or completion ends in an exception.
NoUnhandledFault ==
  ~crashed /\ ~lastOp.threw

\* The external call of every pending operation returns or throws, and the
\* event loop then runs the handler's continuation: one of the completions
\* is taken whenever one stays possible.
EngineCompletes ==
  \E i \in 1 .. MaxEnginePending :
    \/ garmentResolved(i) /\ WithinEngineBounds'
    \/ garmentRejected(i)
    \/ multiResolved(i) /\ WithinEngineBounds'
    \/ multiRejected(i)
    \/ poseResolved(i)
    \/ poseRejected(i)
    \/ sceneResolved(i)
    \/ sceneRejected(i)

SpecEngineLive == Init /\ [][NextEngine]_vars /\ WF_pending(EngineCompletes)

\* C30: whenever the busy flag is set it is eventually cleared, in a state in
\* which the application is still running, so that a later operation can be
\* started.
BusyEventuallyCleared ==
  isLoading ~> (~isLoading /\ ~crashed)

\* C31: handleRemoveLayer(index) with 1 <= index <= cursor removes the layer
\* also while the call of a pose or scene change is pending, leaving the call
\* pending; the completion then writes at the index the operation was invoked
\* with, whatever layer stands there now, or finds no layer at that index.
RemoveLayerWhilePending ==
  [][/\ (/\ lastOp'.op = "handleRemoveLayer"
         /\ lastOp'.arg >= 1 /\ lastOp'.arg <= currentOutfitIndex
         /\ lastOp'.arg < Len(outfitHistory)
         /\ \E j \in 1 .. Len(pending) : pending[j].kind \in {"pose", "scene"})
        => /\ Len(outfitHistory') = Len(outfitHistory) - 1
           /\ \A n \in 1 .. Len(outfitHistory') :
                outfitHistory'[n] =
                  outfitHistory[IF n <= lastOp'.arg THEN n ELSE n + 1]
           /\ currentOutfitIndex' = currentOutfitIndex - 1
           /\ UNCHANGED <<pending, isLoading>>
     /\ (/\ lastOp'.op \in {"poseResolved", "sceneResolved"}
         /\ lastOp'.req.idx < Len(outfitHistory))
        => /\ \E k \in 1 .. Len(outfitHistory'[lastOp'.req.idx + 1].poseImages) :
                outfitHistory'[lastOp'.req.idx + 1].poseImages[k].image = lastOp'.image
           /\ \A n \in 1 .. Len(outfitHistory) :
                n # lastOp'.req.idx + 1 => outfitHistory'[n] = outfitHistory[n]
     /\ (/\ lastOp'.op \in {"poseResolved", "sceneResolved"}
         /\ lastOp'.req.idx >= Len(outfitHistory))
        => outfitHistory' = outfitHistory]_vars

\* C31 witness: the layer at the cursor was removed while a scene change
\* invoked on it was pending, and the index the pending operation will write
\* at is no longer in the history.
RemoveLayerWhilePendingReached ==
  /\ lastOp.op = "handleRemoveLayer"
  /\ lastOp.arg >= 1 /\ lastOp.arg <= lastOp.idx
  /\ Len(outfitHistory) = lastOp.len - 1
  /\ isLoading
  /\ Len(pending) = 1
  /\ pending[1].kind = "scene"
  /\ pending[1].idx = lastOp.idx
  /\ pending[1].idx >= Len(outfitHistory)

\* C32: while the external call of an engine operation is pending, handleUndo
\* and handleRedo leave currentOutfitIndex and currentPoseIndex unchanged.
NoNavigationWhilePending ==
  [][(/\ lastOp'.op \in {"handleUndo", "handleRedo"}
      /\ Outstanding # {})
     => UNCHANGED <<currentOutfitIndex, currentPoseIndex>>]_vars

\* C33: isLoading is true exactly when one external call of an engine
\* operation is pending.
BusyMirrorsInFlight ==
  isLoading <=> Cardinality(Outstanding) = 1

\* C34: every layer above the first has a garment, only the first layer has
\* none, and the garments of a layer that has them are not empty and start
\* with its garment.
LayerGarments ==
  /\ Len(outfitHistory) > 0 => outfitHistory[1].garment = NoGarment
  /\ \A k \in 2 .. Len(outfitHistory) : outfitHistory[k].garment # NoGarment
  /\ \A k \in 1 .. Len(outfitHistory) :
       outfitHistory[k].garments # NoGarments =>
         /\ Len(outfitHistory[k].garments) >= 1
         /\ outfitHistory[k].garment = outfitHistory[k].garments[1]

\* C35: a scene change that resolved leaves the pose keys of every layer as
\* they were (the entry it writes existed already), and no layer holds under
\* a pose key an image rendered in another pose.
SceneKeepsPoseKeys ==
  /\ [][lastOp'.op = "sceneResolved"
        => /\ Len(outfitHistory') = Len(outfitHistory)
           /\ \A k \in 1 .. Len(outfitHistory) :
                PoseKeys(outfitHistory'[k].poseImages) =
                  PoseKeys(outfitHistory[k].poseImages)]_vars
  /\ [](\A k \in 1 .. Len(outfitHistory) :
          \A j \in 1 .. Len(outfitHistory[k].poseImages) :
            outfitHistory[k].poseImages[j].image.pose =
              outfitHistory[k].poseImages[j].pose)

\* C36: the completion of a scene change sets currentScene to the new scene
\* only if it replaced a poseImages entry in outfitHistory, and leaves
\* currentScene as it was when the captured cursor is past the end.
SceneOnlyWithOverwrite ==
  [][lastOp'.op = "sceneResolved"
     => /\ currentScene' # currentScene => outfitHistory' # outfitHistory
        /\ lastOp'.req.idx >= Len(outfitHistory) => currentScene' = currentScene]_vars

\* C37: handleRemoveLayer(index) with 1 <= index < cursor leaves the layer at
\* the cursor and the displayed image as they were, and
\* handleRemoveLayer(cursor) puts the cursor on the layer that stood below;
\* currentPoseIndex changes in neither case.
RemoveLayerKeepsActive ==
  [][(/\ lastOp'.op = "handleRemoveLayer"
      /\ lastOp'.arg >= 1
      /\ lastOp'.arg < Len(outfitHistory)
      /\ currentOutfitIndex < Len(outfitHistory))
     => /\ currentPoseIndex' = currentPoseIndex
        /\ lastOp'.arg < currentOutfitIndex
             => /\ currentOutfitIndex' < Len(outfitHistory')
                /\ outfitHistory'[currentOutfitIndex' + 1] =
                     outfitHistory[currentOutfitIndex + 1]
                /\ displayImageUrl' = displayImageUrl
        /\ lastOp'.arg = currentOutfitIndex
             => /\ currentOutfitIndex' = currentOutfitIndex - 1
                /\ outfitHistory'[currentOutfitIndex' + 1] =
                     outfitHistory[currentOutfitIndex]]_vars

\* C37 witness: of three layers with the cursor on the last, the outfit of
\* garments 1 and 2, the middle one was removed, and the cursor is on the
\* outfit at its new index.
RemoveLayerKeepsActiveReached ==
  /\ lastOp.op = "handleRemoveLayer"
  /\ lastOp.arg = 1 /\ lastOp.idx = 2 /\ lastOp.len = 3
  /\ Len(outfitHistory) = 2
  /\ currentOutfitIndex = 1
  /\ outfitHistory[2].garments = <<1, 2>>
  /\ displayImageUrl = outfitHistory[2].poseImages[1].image

\* C38: no two items of the wardrobe have the same id, and the removal of an
\* item from the wardrobe changes neither outfitHistory nor the cursor.
WardrobeIdsDistinct ==
  /\ [](\A a, b \in 1 .. Len(wardrobe) : wardrobe[a] = wardrobe[b] => a = b)
  /\ [][lastOp'.op = "handleRemoveWardrobeItem"
        => UNCHANGED <<outfitHistory, currentOutfitIndex>>]_vars

\* C38 witness: an uploaded garment has just been registered while a second
\* application of it, started when the wardrobe did not hold it, is about to
\* register it again.
WardrobeIdsDistinctReached ==
  /\ lastOp.op = "garmentPersisted"
  /\ lastOp.req.garment \in Ids(wardrobe)
  /\ \E j \in 1 .. Len(pending) :
       /\ pending[j].phase = "persist"
       /\ pending[j].garment = lastOp.req.garment
       /\ pending[j].garment \notin Ids(pending[j].wardrobe)

====
